---- MODULE Spec2Model ----
(***************************************************************************)
(* A model of src/platform/graphics/render-pass.js: the attachment         *)
(* operation descriptors, RenderPass.init, the setClear* declarations and  *)
(* RenderPass.render with its debug description renderer.                  *)
(*                                                                         *)
(* JavaScript values are records tagged by "kind", so that undefined,      *)
(* null, NaN, numbers and objects can be told apart and compared.          *)
(***************************************************************************)
EXTENDS Integers, Sequences, FiniteSets

VARIABLES
    pass,      \* the RenderPass instances, by identity
    device,    \* the shared graphics device
    tracing,   \* Tracing.get(TRACEID_RENDER_PASS) || Tracing.get(TRACEID_RENDER_PASS_DETAIL)
    call,      \* the most recent operation: its name, its pass, the calls it issued, whether it threw
    hist,      \* history: passes on which init was called, passes with a depth or stencil
               \* clear declared, starting counter, completed renders
    heap       \* the Color objects by address, where object identity is tracked (SpecColors)

vars == <<pass, device, tracing, call, hist, heap>>

-----------------------------------------------------------------------------
(* Bounds of the model *)

MaxColorBuffers == 2

MaxSamples == 4

MaxRenders == 2

-----------------------------------------------------------------------------
(* JavaScript values *)

Undefined == [kind |-> "undefined"]

Null == [kind |-> "null"]

NaN == [kind |-> "NaN"]

Num(n) == [kind |-> "number", n |-> n]

Fn == [kind |-> "function"]

Truthy(v) ==
    CASE v.kind = "undefined" -> FALSE
      [] v.kind = "null"      -> FALSE
      [] v.kind = "NaN"       -> FALSE
      [] v.kind = "number"    -> v.n # 0
      [] OTHER                -> TRUE

\* a variant without the floor of 1
MathMax1_noFloor(a) == IF a.kind = "number" THEN a ELSE NaN

\* Math.max(a, 1) of line 190: the argument is converted with ToNumber first
\* (undefined -> NaN, null -> 0), and NaN is contagious.
MathMax1(a) ==
    CASE a.kind = "number" -> Num(IF a.n > 1 THEN a.n ELSE 1)
      [] a.kind = "null"   -> Num(1)
      [] OTHER             -> NaN

-----------------------------------------------------------------------------
(* Colors (core/math/color.js) *)

Color(r, g, b, a) == [r |-> r, g |-> g, b |-> b, a |-> a]

\* Color.copy(rhs): the receiver takes the four components of rhs
Color_copy(self, rhs) == [self EXCEPT !.r = rhs.r, !.g = rhs.g, !.b = rhs.b, !.a = rhs.a]

Colors == { Color(1, 0, 0, 1), Color(0, 1, 0, 0) }

DepthValues == {0}

StencilValues == {1}

-----------------------------------------------------------------------------
(* Attachment operation descriptors *)

NewColorAttachmentOps ==
    [ clearValue |-> Color(0, 0, 0, 1),
      clear      |-> FALSE,
      store      |-> FALSE,
      resolve    |-> TRUE,
      mipmaps    |-> FALSE ]

NewDepthStencilAttachmentOps ==
    [ kind              |-> "object",
      clearDepthValue   |-> 1,
      clearStencilValue |-> 0,
      clearDepth        |-> FALSE,
      clearStencil      |-> FALSE,
      storeDepth        |-> FALSE,
      storeStencil      |-> FALSE ]

-----------------------------------------------------------------------------
(* Render targets handed to init (the render-target collaborator) *)

Array(items) == [kind |-> "array", items |-> items]

\* the color buffers of an n-buffer target that are mipmapped: none, all,
\* only the first, only the last
MipmapSets(n) == { {}, 1..n, {1} \cap (1..n), {n} \cap (1..n) }

ColorBufferLists ==
    {Undefined} \cup
    UNION { { Array([i \in 1..n |-> [mipmaps |-> i \in m]]) : m \in MipmapSets(n) } :
            n \in 0..MaxColorBuffers }

SampleCounts == { Undefined, Num(0), Num(1), Num(MaxSamples) }

RenderTargets ==
    { [kind |-> "object", samples |-> s, _colorBuffers |-> c] :
        s \in SampleCounts, c \in ColorBufferLists }

InitArgs == {Undefined, Null} \cup RenderTargets

-----------------------------------------------------------------------------
(* RenderPass *)

PassIds == {1}

\* the constructor, lines 93-176: field initialisers, then device and execute
NewRenderPass(execute) ==
    [ name              |-> Undefined,
      renderTarget      |-> Undefined,
      samples           |-> Num(0),
      colorArrayOps     |-> << >>,
      depthStencilOps   |-> Undefined,
      requiresCubemaps  |-> TRUE,
      fullSizeClearRect |-> TRUE,
      execute           |-> execute,
      before            |-> Undefined,
      after             |-> Undefined ]

-----------------------------------------------------------------------------
(* RenderPass.init, lines 184-211 *)

\* const numColorOps = renderTarget ? renderTarget._colorBuffers?.length : 1
NumColorOps(renderTarget) ==
    IF Truthy(renderTarget)
    THEN IF renderTarget._colorBuffers.kind = "array"
         THEN Num(Len(renderTarget._colorBuffers.items))
         ELSE Undefined
    ELSE Num(1)

\* a variant that takes a missing length for one attachment
LoopBound_defaultOne(numColorOps) == IF numColorOps.kind = "number" THEN numColorOps.n ELSE 1

\* i < numColorOps of the loop header; a comparison with undefined is false
LoopBound(numColorOps) == IF numColorOps.kind = "number" THEN numColorOps.n ELSE 0

\* a variant that reads the flag of the first color buffer for every index
NeedsMipmaps_firstBuffer(rt, i) ==
    /\ Truthy(rt)
    /\ rt._colorBuffers.kind = "array"
    /\ rt._colorBuffers.items[1].mipmaps

\* this.renderTarget?._colorBuffers?.[i].mipmaps, i counted from 1 here
NeedsMipmaps(rt, i) ==
    /\ Truthy(rt)
    /\ rt._colorBuffers.kind = "array"
    /\ rt._colorBuffers.items[i].mipmaps

\* the body of the loop, lines 197-209: the ops stored at index i
InitColorOps(samples, rt, i) ==
    LET fresh  == NewColorAttachmentOps
        stored == IF samples = Num(1)
                  THEN [fresh EXCEPT !.store = TRUE, !.resolve = FALSE]
                  ELSE fresh
    IN  IF NeedsMipmaps(rt, i) THEN [stored EXCEPT !.mipmaps = TRUE] ELSE stored

\* the array after the loop: indices below numColorOps are assigned, the
\* others keep what the array held before the call
InitColorArrayOps(old, samples, rt, n) ==
    LET len == IF Len(old) > n THEN Len(old) ELSE n
    IN  [ i \in 1..len |-> IF i <= n THEN InitColorOps(samples, rt, i) ELSE old[i] ]

\* a variant that allocates depthStencilOps only when the pass has none
init_keepsDepthStencilOps(self, dev, renderTarget) ==
    LET rt      == IF Truthy(renderTarget) THEN renderTarget ELSE Null
        samples == MathMax1(IF Truthy(rt) THEN rt.samples ELSE dev.samples)
        n       == LoopBound(NumColorOps(renderTarget))
    IN  [ self EXCEPT
            !.renderTarget    = rt,
            !.samples         = samples,
            !.depthStencilOps = IF @.kind = "undefined" THEN NewDepthStencilAttachmentOps ELSE @,
            !.colorArrayOps   = InitColorArrayOps(self.colorArrayOps, samples, rt, n) ]

init(self, dev, renderTarget) ==
    LET rt      == IF Truthy(renderTarget) THEN renderTarget ELSE Null
        samples == MathMax1(IF Truthy(rt) THEN rt.samples ELSE dev.samples)
        n       == LoopBound(NumColorOps(renderTarget))
    IN  [ self EXCEPT
            !.renderTarget    = rt,
            !.samples         = samples,
            !.depthStencilOps = NewDepthStencilAttachmentOps,
            !.colorArrayOps   = InitColorArrayOps(self.colorArrayOps, samples, rt, n) ]

-----------------------------------------------------------------------------
(* The clear declarations, lines 218-248 *)

\* a variant that clears only the first color attachment (colorOps)
setClearColor_firstOnly(self, color) ==
    [ self EXCEPT !.colorArrayOps =
        [ i \in 1..Len(self.colorArrayOps) |->
            IF i > 1 THEN self.colorArrayOps[i]
            ELSE [ self.colorArrayOps[i] EXCEPT
                     !.clearValue = Color_copy(self.colorArrayOps[i].clearValue, color),
                     !.clear      = TRUE ] ] ]

setClearColor(self, color) ==
    [ self EXCEPT !.colorArrayOps =
        [ i \in 1..Len(self.colorArrayOps) |->
            [ self.colorArrayOps[i] EXCEPT
                !.clearValue = Color_copy(self.colorArrayOps[i].clearValue, color),
                !.clear      = TRUE ] ] ]

\* this.depthStencilOps.x = v is a TypeError while depthStencilOps is undefined
DepthStencilThrows(self) == self.depthStencilOps.kind = "undefined"

\* a variant that also marks the stencil attachment as cleared
setClearDepth_alsoStencil(self, depthValue) ==
    [ self EXCEPT !.depthStencilOps.clearDepthValue = depthValue,
                  !.depthStencilOps.clearDepth      = TRUE,
                  !.depthStencilOps.clearStencil    = TRUE ]

setClearDepth(self, depthValue) ==
    [ self EXCEPT !.depthStencilOps.clearDepthValue = depthValue,
                  !.depthStencilOps.clearDepth      = TRUE ]

\* a variant that counts the declarations instead of recording the value
setClearStencil_accumulate(self, stencilValue) ==
    [ self EXCEPT !.depthStencilOps.clearStencilValue = @ + stencilValue,
                  !.depthStencilOps.clearStencil      = TRUE ]

setClearStencil(self, stencilValue) ==
    [ self EXCEPT !.depthStencilOps.clearStencilValue = stencilValue,
                  !.depthStencilOps.clearStencil      = TRUE ]

-----------------------------------------------------------------------------
(* RenderPass.render, lines 253-281, as a run of steps over the device and *)
(* the list of calls issued so far; a step after a fault does nothing.     *)

Run(dev) ==
    [ device |-> dev, trace |-> << >>, threw |-> FALSE,
      startPassArg |-> Undefined, endPassArg |-> Undefined ]

Emit(run, event) == [run EXCEPT !.trace = Append(@, event)]

\* DebugGraphics.pushGpuMarker(device, `Pass:${this.name}`)
pushGpuMarker(run, name) ==
    IF run.threw THEN run
    ELSE Emit([run EXCEPT !.device.gpuMarkers = Append(@, <<"Pass:", name>>)], "pushGpuMarker")

\* DebugGraphics.popGpuMarker(device)
popGpuMarker(run) ==
    IF run.threw THEN run
    ELSE Emit([run EXCEPT !.device.gpuMarkers = SubSeq(@, 1, Len(@) - 1)], "popGpuMarker")

\* log(device, index), lines 284-326, with device.backBuffer undefined: the
\* description is built only while tracing, and this.name.padEnd is a
\* TypeError for a pass without a name
logThrows(self, trc) == trc /\ self.name.kind = "undefined"

\* Debug.call(() => this.log(device, device.renderPassIndex))
DebugCall(run, self, trc) ==
    IF run.threw THEN run
    ELSE IF logThrows(self, trc) THEN [run EXCEPT !.threw = TRUE] ELSE run

\* a variant that catches the fault of a callback and carries on
Callback_caught(run, field, event, fault) ==
    IF run.threw \/ ~Truthy(field) THEN run ELSE Emit(run, event)

\* this.before?.(), this.execute?.(), this.after?.(): the callback runs when
\* the field holds one, and a fault of the callback is not caught
Callback(run, field, event, fault) ==
    IF run.threw \/ ~Truthy(field) THEN run
    ELSE IF fault = event THEN [Emit(run, event) EXCEPT !.threw = TRUE]
    ELSE Emit(run, event)

\* device.startPass(this): the device is handed the pass as it is now
startPass(run, self) ==
    IF run.threw THEN run ELSE Emit([run EXCEPT !.startPassArg = self], "startPass")

\* a variant that never ends the pass on the device
endPass_notIssued(run, self) == run

\* device.endPass(this)
endPass(run, self) ==
    IF run.threw THEN run ELSE Emit([run EXCEPT !.endPassArg = self], "endPass")

\* device.renderPassIndex++
IncRenderPassIndex(run) ==
    IF run.threw THEN run
    ELSE Emit([run EXCEPT !.device.renderPassIndex = @ + 1], "renderPassIndex++")

\* a variant that tests the target for truthiness, so that the default
\* framebuffer (null) no longer counts as a real pass
RealPass_truthy(self) == Truthy(self.renderTarget)

\* const realPass = this.renderTarget !== undefined
RealPass(self) == self.renderTarget # Undefined

\* a variant that runs execute before the device begins the pass
render_executeFirst(self, dev, trc, fault) ==
    LET realPass == RealPass(self)
        r1 == pushGpuMarker(Run(dev), self.name)
        r2 == DebugCall(r1, self, trc)
        r3 == Callback(r2, self.before, "before", fault)
        r4 == Callback(r3, self.execute, "execute", fault)
        r5 == IF realPass THEN startPass(r4, self) ELSE r4
        r6 == IF realPass THEN endPass(r5, self) ELSE r5
        r7 == Callback(r6, self.after, "after", fault)
        r8 == IncRenderPassIndex(r7)
    IN  popGpuMarker(r8)

\* a variant that counts only the passes the device began
render_countRealOnly(self, dev, trc, fault) ==
    LET realPass == RealPass(self)
        r1 == pushGpuMarker(Run(dev), self.name)
        r2 == DebugCall(r1, self, trc)
        r3 == Callback(r2, self.before, "before", fault)
        r4 == IF realPass THEN startPass(r3, self) ELSE r3
        r5 == Callback(r4, self.execute, "execute", fault)
        r6 == IF realPass THEN endPass(r5, self) ELSE r5
        r7 == Callback(r6, self.after, "after", fault)
        r8 == IF realPass THEN IncRenderPassIndex(r7) ELSE r7
    IN  popGpuMarker(r8)

render(self, dev, trc, fault) ==
    LET realPass == RealPass(self)
        r1 == pushGpuMarker(Run(dev), self.name)
        r2 == DebugCall(r1, self, trc)
        r3 == Callback(r2, self.before, "before", fault)
        r4 == IF realPass THEN startPass(r3, self) ELSE r3
        r5 == Callback(r4, self.execute, "execute", fault)
        r6 == IF realPass THEN endPass(r5, self) ELSE r5
        r7 == Callback(r6, self.after, "after", fault)
        r8 == IncRenderPassIndex(r7)
    IN  popGpuMarker(r8)

\* where a callback may fault during one render call
Faults == {"none", "before", "execute", "after"}

-----------------------------------------------------------------------------
(* Colors as objects: where the identity of the Color objects matters, a    *)
(* clearValue holds a reference, and the components live on a heap of Color *)
(* objects by address. Elsewhere colors are held by value and the heap is   *)
(* empty.                                                                   *)

Addrs == 1..(2 * MaxColorBuffers + 1)

Free == [kind |-> "free"]

Ref(a) == [kind |-> "ref", addr |-> a]

NoHeap == [obj |-> [a \in Addrs |-> Free], color |-> Undefined]

Unused(hp) == { a \in Addrs : hp.obj[a] = Free }

\* a variant in which every ColorAttachmentOps of one init call takes the
\* same default Color object
New_shared(hp, k) == CHOOSE a \in Unused(hp) : \A b \in Unused(hp) : a <= b

\* new Color(...): the k-th object allocated from heap hp is at an address
\* that no object of hp has and that differs for each k
New(hp, k) ==
    CHOOSE a \in Unused(hp) : Cardinality({ b \in Unused(hp) : b < a }) = k - 1

\* init, lines 184-211, with the clearValue of each new ColorAttachmentOps
\* (line 11) allocated on the heap; entries beyond numColorOps keep the
\* object they had
initOnHeap(self, dev, renderTarget, hp) ==
    LET q   == init(self, dev, renderTarget)
        n   == LoopBound(NumColorOps(renderTarget))
        ops == [ i \in 1..Len(q.colorArrayOps) |->
                    IF i <= n
                    THEN [ q.colorArrayOps[i] EXCEPT !.clearValue = Ref(New(hp, i)) ]
                    ELSE q.colorArrayOps[i] ]
        obj == [ a \in Addrs |->
                    IF \E i \in 1..n : a = New(hp, i)
                    THEN NewColorAttachmentOps.clearValue
                    ELSE hp.obj[a] ]
    IN  [ pass |-> [q EXCEPT !.colorArrayOps = ops], heap |-> [hp EXCEPT !.obj = obj] ]

\* the loop of setClearColor, lines 221-227, from index i on: the Color
\* object of each entry in turn takes the components of the object at color
RECURSIVE CopyInto(_, _, _, _)
CopyInto(ops, color, obj, i) ==
    IF i > Len(ops) THEN obj
    ELSE CopyInto(ops, color,
                  [obj EXCEPT ![ops[i].clearValue.addr] = Color_copy(@, obj[color])],
                  i + 1)

\* setClearColor(color), lines 218-228, with color the address of the
\* caller's Color object
setClearColorOnHeap(self, color, hp) ==
    [ pass |-> [ self EXCEPT !.colorArrayOps =
                    [ i \in 1..Len(self.colorArrayOps) |->
                        [ self.colorArrayOps[i] EXCEPT !.clear = TRUE ] ] ],
      heap |-> [ hp EXCEPT !.obj = CopyInto(self.colorArrayOps, color, hp.obj, 1) ] ]

\* the objects no entry of a pass and no caller refers to any more are dropped
Collect(passes, hp) ==
    LET live == { hp.color } \cup
                UNION { { passes[p].colorArrayOps[i].clearValue.addr :
                            i \in DOMAIN passes[p].colorArrayOps } : p \in DOMAIN passes }
    IN  [ hp EXCEPT !.obj = [ a \in Addrs |-> IF a \in live THEN @[a] ELSE Free ] ]

-----------------------------------------------------------------------------
(* The state machine *)

\* the record of a call: the operation, its receiver and argument, the
\* callback and device calls it issued, and whether it ended in a fault
Done(op, p, arg) ==
    [op |-> op, pass |-> p, arg |-> arg, trace |-> << >>, threw |-> FALSE]

Thrown(op, p, arg) ==
    [op |-> op, pass |-> p, arg |-> arg, trace |-> << >>, threw |-> TRUE]

\* a render call also records which callback was set to fault, and the pass
\* as the device received it when the pass was begun and ended
Rendered(p, run, fault) ==
    [ op |-> "render", pass |-> p, arg |-> Undefined, trace |-> run.trace,
      threw |-> run.threw, fault |-> fault,
      startPassArg |-> run.startPassArg, endPassArg |-> run.endPassArg ]

DeviceSamples == { Num(1), Num(MaxSamples) }

NewDevice(samples, index) ==
    [ samples |-> samples, renderPassIndex |-> index, gpuMarkers |-> << >>,
      backBuffer |-> Undefined ]

\* pass.name = ..., pass.before = ..., pass.after = ..., pass.execute = ...
Assign(p, field, value) ==
    /\ pass[p][field] # value
    /\ pass' = [pass EXCEPT ![p][field] = value]
    /\ call' = Done("assign", p, Undefined)
    /\ UNCHANGED <<device, tracing, hist, heap>>

InitPass(p, renderTarget) ==
    /\ pass' = [pass EXCEPT ![p] = init(pass[p], device, renderTarget)]
    /\ call' = Done("init", p, renderTarget)
    /\ hist' = [hist EXCEPT !.initCalled = @ \cup {p}]
    /\ UNCHANGED <<device, tracing, heap>>

SetClearColor(p, color) ==
    /\ pass' = [pass EXCEPT ![p] = setClearColor(pass[p], color)]
    /\ call' = Done("setClearColor", p, color)
    /\ UNCHANGED <<device, tracing, hist, heap>>

SetClearDepth(p, depthValue) ==
    /\ IF DepthStencilThrows(pass[p])
       THEN /\ pass' = pass
            /\ call' = Thrown("setClearDepth", p, Num(depthValue))
            /\ hist' = hist
       ELSE /\ pass' = [pass EXCEPT ![p] = setClearDepth(pass[p], depthValue)]
            /\ call' = Done("setClearDepth", p, Num(depthValue))
            /\ hist' = [hist EXCEPT !.declared = @ \cup {p}]
    /\ UNCHANGED <<device, tracing, heap>>

SetClearStencil(p, stencilValue) ==
    /\ IF DepthStencilThrows(pass[p])
       THEN /\ pass' = pass
            /\ call' = Thrown("setClearStencil", p, Num(stencilValue))
            /\ hist' = hist
       ELSE /\ pass' = [pass EXCEPT ![p] = setClearStencil(pass[p], stencilValue)]
            /\ call' = Done("setClearStencil", p, Num(stencilValue))
            /\ hist' = [hist EXCEPT !.declared = @ \cup {p}]
    /\ UNCHANGED <<device, tracing, heap>>

\* the number of render calls made so far: the completed ones and the
\* faulted ones, each of which left its marker on the stack
RenderCalls == hist.completed + Len(device.gpuMarkers)

Render(p, fault) ==
    /\ RenderCalls < MaxRenders
    /\ fault # "none" => Truthy(pass[p][fault])
    /\ LET run == render(pass[p], device, tracing, fault)
       IN  /\ device' = run.device
           /\ call'   = Rendered(p, run, fault)
           /\ hist'   = [hist EXCEPT !.completed = IF run.threw THEN @ ELSE @ + 1]
    /\ UNCHANGED <<pass, tracing, heap>>

NoHistory ==
    [initCalled |-> {}, declared |-> {}, index0 |-> device.renderPassIndex, completed |-> 0]

-----------------------------------------------------------------------------
(* Spec: one pass and its attachment declarations, over every render       *)
(* target of the bounds.                                                   *)

Init ==
    /\ pass = [p \in PassIds |-> NewRenderPass(Undefined)]
    /\ device \in { NewDevice(s, 0) : s \in DeviceSamples }
    /\ tracing = FALSE
    /\ call = Done("constructor", 1, Undefined)
    /\ hist = NoHistory
    /\ heap = NoHeap

Next ==
    \/ \E p \in DOMAIN pass, rt \in InitArgs : InitPass(p, rt)
    \/ \E p \in DOMAIN pass, c \in Colors : SetClearColor(p, c)
    \/ \E p \in DOMAIN pass, v \in DepthValues : SetClearDepth(p, v)
    \/ \E p \in DOMAIN pass, v \in StencilValues : SetClearStencil(p, v)

Spec == Init /\ [][Next]_vars

-----------------------------------------------------------------------------
(* SpecRender: one pass rendered with every combination of callbacks, with *)
(* and without a name, tracing on or off, on no target, the default        *)
(* framebuffer or a single-buffer target.                                  *)

Forward == [kind |-> "string", s |-> "Forward"]

Red == Color(1, 0, 0, 1)

SingleBufferTarget ==
    [ kind |-> "object", samples |-> Num(MaxSamples),
      _colorBuffers |-> Array(<< [mipmaps |-> FALSE] >>) ]

InitRender ==
    /\ pass \in [PassIds -> { NewRenderPass(e) : e \in {Undefined, Fn} }]
    /\ device = NewDevice(Num(1), 0)
    /\ tracing \in BOOLEAN
    /\ call = Done("constructor", 1, Undefined)
    /\ hist = NoHistory
    /\ heap = NoHeap

NextRender ==
    \/ \E p \in DOMAIN pass, f \in {"before", "execute", "after"}, v \in {Undefined, Fn} :
            Assign(p, f, v)
    \/ \E p \in DOMAIN pass, v \in {Undefined, Forward} : Assign(p, "name", v)
    \/ \E p \in DOMAIN pass, rt \in {Undefined, SingleBufferTarget} : InitPass(p, rt)
    \/ \E p \in DOMAIN pass : SetClearColor(p, Red)
    \/ \E p \in DOMAIN pass, v \in DepthValues : SetClearDepth(p, v)
    \/ \E p \in DOMAIN pass, v \in StencilValues : SetClearStencil(p, v)
    \/ \E p \in DOMAIN pass, f \in Faults : Render(p, f)

SpecRender == InitRender /\ [][NextRender]_vars

-----------------------------------------------------------------------------
(* SpecShared: two passes that share the device, each with or without an   *)
(* execute callback that may fault.                                        *)

StartIndices == {0, 7}

InitShared ==
    /\ pass \in [{1, 2} -> { NewRenderPass(e) : e \in {Undefined, Fn} }]
    /\ device \in { NewDevice(Num(1), i) : i \in StartIndices }
    /\ tracing = FALSE
    /\ call = Done("constructor", 2, Undefined)
    /\ hist = NoHistory
    /\ heap = NoHeap

NextShared ==
    \/ \E p \in DOMAIN pass, rt \in {Undefined, SingleBufferTarget} : InitPass(p, rt)
    \/ \E p \in DOMAIN pass : SetClearColor(p, Red)
    \/ \E p \in DOMAIN pass, v \in DepthValues : SetClearDepth(p, v)
    \/ \E p \in DOMAIN pass, v \in StencilValues : SetClearStencil(p, v)
    \/ \E p \in DOMAIN pass, f \in {"none", "execute"} : Render(p, f)

SpecShared == InitShared /\ [][NextShared]_vars

-----------------------------------------------------------------------------
(* SpecColors: one pass whose clear colors are objects on the heap, and a   *)
(* caller that holds the Color it passes to setClearColor and may write the *)
(* components of that Color and of any clearValue.                          *)

ManyBufferTarget ==
    [ kind |-> "object", samples |-> Num(1),
      _colorBuffers |-> Array([ i \in 1..MaxColorBuffers |-> [mipmaps |-> FALSE] ]) ]

Components == {"r", "g"}

ComponentValues == {0, 1}

InitPassOnHeap(p, renderTarget) ==
    /\ LET after == initOnHeap(pass[p], device, renderTarget, heap)
           passes == [pass EXCEPT ![p] = after.pass]
       IN  /\ pass' = passes
           /\ heap' = Collect(passes, after.heap)
    /\ call' = Done("init", p, renderTarget)
    /\ hist' = [hist EXCEPT !.initCalled = @ \cup {p}]
    /\ UNCHANGED <<device, tracing>>

\* pass.setClearColor(color), with color the caller's Color object
SetClearColorOnHeap(p) ==
    /\ LET after == setClearColorOnHeap(pass[p], heap.color, heap)
       IN  pass' = [pass EXCEPT ![p] = after.pass] /\ heap' = after.heap
    /\ call' = Done("setClearColor", p, Ref(heap.color))
    /\ UNCHANGED <<device, tracing, hist>>

\* color.r = v or color.g = v, on the Color the caller passes to setClearColor
WriteColor(component, v) ==
    /\ heap.obj[heap.color][component] # v
    /\ heap' = [heap EXCEPT !.obj[heap.color][component] = v]
    /\ call' = Done("writeColor", 1, Ref(heap.color))
    /\ UNCHANGED <<pass, device, tracing, hist>>

\* pass.colorArrayOps[i].clearValue.r = v (or .g = v), by the caller
WriteClearValue(p, i, component, v) ==
    /\ i \in DOMAIN pass[p].colorArrayOps
    /\ LET a == pass[p].colorArrayOps[i].clearValue.addr
       IN  /\ heap.obj[a][component] # v
           /\ heap' = [heap EXCEPT !.obj[a][component] = v]
    /\ call' = Done("writeClearValue", p, Num(i))
    /\ UNCHANGED <<pass, device, tracing, hist>>

InitColors ==
    /\ pass = [p \in PassIds |-> NewRenderPass(Undefined)]
    /\ device = NewDevice(Num(1), 0)
    /\ tracing = FALSE
    /\ call = Done("constructor", 1, Undefined)
    /\ hist = NoHistory
    /\ heap = [ obj   |-> [NoHeap.obj EXCEPT ![New(NoHeap, 1)] = Red],
                color |-> New(NoHeap, 1) ]

NextColors ==
    \/ \E p \in DOMAIN pass, rt \in {Null, ManyBufferTarget} : InitPassOnHeap(p, rt)
    \/ \E p \in DOMAIN pass : SetClearColorOnHeap(p)
    \/ \E c \in Components, v \in ComponentValues : WriteColor(c, v)
    \/ \E p \in DOMAIN pass, i \in 1..MaxColorBuffers, c \in Components, v \in ComponentValues :
            WriteClearValue(p, i, c, v)

SpecColors == InitColors /\ [][NextColors]_vars

-----------------------------------------------------------------------------
(* Properties of render, under SpecRender *)

When(cond, event) == IF cond THEN << event >> ELSE << >>

Count(trace, event) == Cardinality({ i \in 1..Len(trace) : trace[i] = event })

InitWasCalled(p) == p \in hist.initCalled

\* the order stated for a completed render call of pass p
StatedOrder(p) ==
    << "pushGpuMarker" >>
    \o When(Truthy(pass[p].before), "before")
    \o When(InitWasCalled(p), "startPass")
    \o When(Truthy(pass[p].execute), "execute")
    \o When(InitWasCalled(p), "endPass")
    \o When(Truthy(pass[p].after), "after")
    \o << "renderPassIndex++", "popGpuMarker" >>

\* C1: every completed render call issues its calls in the order marker
\* push, before (if present), begin-pass (if init was called), execute (if
\* present), end-pass (if init was called), after (if present), counter
\* increment, marker pop, and issues nothing else.
C1_RenderOrder ==
    (call.op = "render" /\ ~call.threw) => call.trace = StatedOrder(call.pass)

\* a completed render of a pass on a concrete target with all three callbacks
C1_Witness ==
    /\ call.op = "render" /\ ~call.threw
    /\ pass[call.pass].renderTarget.kind = "object"
    /\ Truthy(pass[call.pass].before)
    /\ Truthy(pass[call.pass].execute)
    /\ Truthy(pass[call.pass].after)

\* C2: a render call of a pass on which init was never called issues no
\* begin-pass and no end-pass (whether or not it completes), and when it
\* completes it has invoked each callback that is present exactly once; a
\* completed render call of a pass on which init was called, with whatever
\* target, issues begin-pass exactly once and end-pass exactly once.
C2_BeginEndIffInit ==
    call.op = "render" =>
        LET p == call.pass
        IN  /\ ~InitWasCalled(p) =>
                /\ Count(call.trace, "startPass") = 0
                /\ Count(call.trace, "endPass") = 0
                /\ ~call.threw =>
                     \A f \in {"before", "execute", "after"} :
                        Count(call.trace, f) = IF Truthy(pass[p][f]) THEN 1 ELSE 0
            /\ (InitWasCalled(p) /\ ~call.threw) =>
                /\ Count(call.trace, "startPass") = 1
                /\ Count(call.trace, "endPass") = 1

\* a completed render of a pass initialised on the default framebuffer
C2_Witness ==
    /\ call.op = "render" /\ ~call.threw
    /\ InitWasCalled(call.pass)
    /\ pass[call.pass].renderTarget = Null
    /\ Count(call.trace, "startPass") = 1

-----------------------------------------------------------------------------
(* Properties of init, under Spec *)

Max(a, b) == IF a > b THEN a ELSE b

ColorOps(p) == pass[p].colorArrayOps

\* the number of color attachments of the target a pass is bound to: one for
\* the default framebuffer, the length of the color-buffer list of a target,
\* none for a target without the list
AttachmentCount(rt) ==
    IF rt = Null THEN 1
    ELSE IF rt._colorBuffers.kind = "array" THEN Len(rt._colorBuffers.items) ELSE 0

JustInitialised == call.op = "init"

\* C3: after any init call that resolves the sample count to 1, every entry
\* of colorArrayOps has store = true and resolve = false.
C3_SingleSampleStored ==
    (JustInitialised /\ pass[call.pass].samples = Num(1)) =>
        \A i \in 1..Len(ColorOps(call.pass)) :
            ColorOps(call.pass)[i].store /\ ~ColorOps(call.pass)[i].resolve

\* C4: after any init call, colorArrayOps has as many entries as the target
\* just passed has color attachments, and depthStencilOps is allocated.
C4_OneOpsPerAttachment ==
    JustInitialised =>
        /\ Len(ColorOps(call.pass)) = AttachmentCount(pass[call.pass].renderTarget)
        /\ pass[call.pass].depthStencilOps.kind = "object"

\* the sample count the claim states: the target's when the target defines
\* one, otherwise the device's, with a floor of 1
StatedSamples(p) ==
    LET rt == pass[p].renderTarget
        s  == IF rt.kind = "object" /\ rt.samples.kind = "number"
              THEN rt.samples.n ELSE device.samples.n
    IN  Num(Max(s, 1))

\* C5 as stated: once init has been called, samples is max(s, 1) where s is
\* the target's sample count if the target defines one and otherwise the
\* device's default sample count, also for a concrete target whose sample
\* count is absent.
C5_SamplesFallBackToDevice ==
    \A p \in DOMAIN pass : InitWasCalled(p) => pass[p].samples = StatedSamples(p)

\* C5 as amended: once init has been called, samples is max(s, 1) where s is
\* the sample count of the concrete target when one was passed, and the
\* device's default sample count when none was (null or absent); it is then
\* a number >= 1. The device's count is not consulted for a concrete target:
\* when that target's sample count is absent, samples is NaN.
C5_SamplesFromTargetOrDevice ==
    \A p \in DOMAIN pass : InitWasCalled(p) =>
        LET rt == pass[p].renderTarget
        IN  /\ rt = Null => pass[p].samples = Num(Max(device.samples.n, 1))
            /\ (rt.kind = "object" /\ rt.samples.kind = "number") =>
                    pass[p].samples = Num(Max(rt.samples.n, 1))
            /\ (rt.kind = "object" /\ rt.samples.kind = "undefined") =>
                    pass[p].samples = NaN
            /\ pass[p].samples.kind = "number" => pass[p].samples.n >= 1

\* init on a target whose sample count is 0: samples is floored to 1
C5_Witness ==
    /\ JustInitialised
    /\ pass[call.pass].renderTarget.kind = "object"
    /\ pass[call.pass].renderTarget.samples = Num(0)
    /\ pass[call.pass].samples = Num(1)

\* C9: after any init call with a sample count greater than 1, every entry
\* of colorArrayOps has resolve = true and store = false.
C9_MultiSampleDefaults ==
    (JustInitialised /\ pass[call.pass].samples.kind = "number"
                     /\ pass[call.pass].samples.n > 1) =>
        \A i \in 1..Len(ColorOps(call.pass)) :
            ColorOps(call.pass)[i].resolve /\ ~ColorOps(call.pass)[i].store

-----------------------------------------------------------------------------
(* Properties of the clear declarations, under Spec *)

\* C6: every setClearColor(C) call leaves all entries of colorArrayOps,
\* as many as before the call, with clear = true and clearValue = C,
\* whatever clear colors the entries held from earlier calls, and leaves
\* store, resolve and mipmaps of every entry as they were.
C6_ClearColorUniform ==
    [][ call'.op = "setClearColor" =>
            LET old == pass[call'.pass].colorArrayOps
                new == pass'[call'.pass].colorArrayOps
            IN  /\ Len(new) = Len(old)
                /\ \A i \in 1..Len(new) :
                    /\ new[i].clear
                    /\ new[i].clearValue = call'.arg
                    /\ new[i].store   = old[i].store
                    /\ new[i].resolve = old[i].resolve
                    /\ new[i].mipmaps = old[i].mipmaps ]_vars

\* setClearColor has acted on a pass with several color attachments
C6_Witness ==
    /\ call.op = "setClearColor"
    /\ Len(ColorOps(call.pass)) >= 2
    /\ \A i \in 1..Len(ColorOps(call.pass)) :
        ColorOps(call.pass)[i].clear /\ ColorOps(call.pass)[i].clearValue = call.arg

\* the arguments the laws of the declarations are stated over
LawColors == Colors

LawDepths == DepthValues \cup {5}

LawStencils == StencilValues \cup {255}

DepthStencilFields ==
    { "clearDepthValue", "clearStencilValue", "clearDepth", "clearStencil",
      "storeDepth", "storeStencil" }

\* what a call on pass p must leave alone outside depthStencilOps
RestUnchanged(p) ==
    /\ pass'[p].colorArrayOps = pass[p].colorArrayOps
    /\ pass'[p].samples       = pass[p].samples
    /\ pass'[p].renderTarget  = pass[p].renderTarget

\* C7: on a pass on which init was called, setClearDepth(v) returns and
\* changes only depthStencilOps.clearDepthValue (to v) and clearDepth (to
\* true), and setClearStencil(v) returns and changes only clearStencilValue
\* (to v) and clearStencil (to true); the other fields of depthStencilOps,
\* colorArrayOps, samples and renderTarget are as before. The first
\* conjunct states it of the two functions for every argument of the laws,
\* the second of every call made.
C7_DepthStencilFrame ==
    /\ [](\A p \in DOMAIN pass : InitWasCalled(p) =>
            /\ \A v \in LawDepths :
                    setClearDepth(pass[p], v) =
                        [pass[p] EXCEPT !.depthStencilOps =
                            [pass[p].depthStencilOps EXCEPT !.clearDepthValue = v,
                                                            !.clearDepth = TRUE]]
            /\ \A v \in LawStencils :
                    setClearStencil(pass[p], v) =
                        [pass[p] EXCEPT !.depthStencilOps =
                            [pass[p].depthStencilOps EXCEPT !.clearStencilValue = v,
                                                            !.clearStencil = TRUE]])
    /\ [][ LET p   == call'.pass
            old == pass[p].depthStencilOps
            new == pass'[p].depthStencilOps
        IN  /\ (call'.op = "setClearDepth" /\ InitWasCalled(p)) =>
                /\ ~call'.threw
                /\ new.clearDepthValue = call'.arg.n
                /\ new.clearDepth
                /\ \A f \in DepthStencilFields \ {"clearDepthValue", "clearDepth"} :
                        new[f] = old[f]
                /\ RestUnchanged(p)
            /\ (call'.op = "setClearStencil" /\ InitWasCalled(p)) =>
                /\ ~call'.threw
                /\ new.clearStencilValue = call'.arg.n
                /\ new.clearStencil
                /\ \A f \in DepthStencilFields \ {"clearStencilValue", "clearStencil"} :
                        new[f] = old[f]
                /\ RestUnchanged(p) ]_vars

\* setClearStencil has acted after setClearDepth on a pass with a color attachment
C7_Witness ==
    /\ call.op = "setClearStencil" /\ ~call.threw
    /\ pass[call.pass].depthStencilOps.clearStencil
    /\ pass[call.pass].depthStencilOps.clearStencilValue = call.arg.n
    /\ pass[call.pass].depthStencilOps.clearDepth
    /\ pass[call.pass].depthStencilOps.clearDepthValue \in DepthValues
    /\ Len(ColorOps(call.pass)) >= 1

\* C8: in every state of a pass on which init was called, each of
\* setClearColor, setClearDepth and setClearStencil gives the same state
\* when called twice with one argument as when called once, and one call of
\* each of the three gives the same final state in all six orders.
C8_IdempotentAndCommuting ==
    \A p \in DOMAIN pass : InitWasCalled(p) =>
        \A c \in LawColors, d \in LawDepths, s \in LawStencils :
            LET P     == pass[p]
                C(x)  == setClearColor(x, c)
                D(x)  == setClearDepth(x, d)
                S(x)  == setClearStencil(x, s)
            IN  /\ C(C(P)) = C(P)
                /\ D(D(P)) = D(P)
                /\ S(S(P)) = S(P)
                /\ C(D(P)) = D(C(P))
                /\ C(S(P)) = S(C(P))
                /\ D(S(P)) = S(D(P))
                /\ { C(D(S(P))), C(S(D(P))), D(C(S(P))),
                     D(S(C(P))), S(C(D(P))), S(D(C(P))) } = { S(D(C(P))) }

\* all three declarations have acted on a pass with several color attachments
C8_Witness ==
    /\ call.op \in {"setClearColor", "setClearDepth", "setClearStencil"}
    /\ ~call.threw
    /\ InitWasCalled(call.pass)
    /\ pass[call.pass].depthStencilOps.clearDepth
    /\ pass[call.pass].depthStencilOps.clearStencil
    /\ Len(ColorOps(call.pass)) >= 2
    /\ \A i \in 1..Len(ColorOps(call.pass)) : ColorOps(call.pass)[i].clear

-----------------------------------------------------------------------------
(* Properties of the device's render-pass counter, under SpecShared *)

\* C10: the device's render-pass counter always equals its value before the
\* first render plus the number of render calls completed so far, on either
\* pass, initialised or not, with or without an execute callback; so each
\* completed render adds exactly one, and no init, setClear* call or render
\* call ended by a fault changes it.
C10_CounterCountsCompletedRenders ==
    device.renderPassIndex = hist.index0 + hist.completed

\* two renders have completed on a device whose counter did not start at 0,
\* the later one on a pass that was never initialised, next to an
\* initialised pass
C10_Witness ==
    /\ hist.completed >= 2
    /\ hist.index0 # 0
    /\ call.op = "render" /\ ~call.threw
    /\ ~InitWasCalled(call.pass)
    /\ hist.initCalled # {}

-----------------------------------------------------------------------------
(* Further properties of init and of the clear declarations, under Spec *)

\* C11: after an init call, for every index below the number of color
\* attachments of the target passed, colorArrayOps[i].mipmaps is true if and
\* only if color buffer i of the target declares mipmaps; for the default
\* framebuffer it is false.
C11_MipmapsFollowColorBuffers ==
    JustInitialised =>
        LET rt == pass[call.pass].renderTarget
        IN  \A i \in 1..AttachmentCount(rt) :
                ColorOps(call.pass)[i].mipmaps
                    <=> (rt.kind = "object" /\ rt._colorBuffers.items[i].mipmaps)

\* init on a two-buffer target of which only the second buffer is mipmapped
C11_Witness ==
    /\ JustInitialised
    /\ pass[call.pass].renderTarget.kind = "object"
    /\ pass[call.pass].renderTarget._colorBuffers = Array(<< [mipmaps |-> FALSE], [mipmaps |-> TRUE] >>)
    /\ ~ColorOps(call.pass)[1].mipmaps
    /\ ColorOps(call.pass)[2].mipmaps

\* a concrete render target without the color-buffer list
LacksColorBuffers(rt) == rt.kind = "object" /\ rt._colorBuffers.kind = "undefined"

\* C12: an init call on a pass never initialised before, with a concrete
\* target that lacks the color-buffer list, returns without a fault and
\* leaves colorArrayOps empty, renderTarget set to that target,
\* depthStencilOps allocated, and samples as for any concrete target (the
\* target's count floored to 1, NaN when the target has none).
C12_TargetWithoutColorBuffers ==
    [][ (call'.op = "init" /\ ~InitWasCalled(call'.pass) /\ LacksColorBuffers(call'.arg)) =>
            LET new == pass'[call'.pass]
            IN  /\ ~call'.threw
                /\ new.colorArrayOps = << >>
                /\ new.renderTarget = call'.arg
                /\ new.depthStencilOps.kind = "object"
                /\ new.samples = IF call'.arg.samples.kind = "number"
                                 THEN Num(Max(call'.arg.samples.n, 1))
                                 ELSE NaN ]_vars

\* init has acted with a multisampled target that lacks the color-buffer list
C12_Witness ==
    /\ JustInitialised
    /\ LacksColorBuffers(call.arg)
    /\ pass[call.pass].renderTarget = call.arg
    /\ pass[call.pass].samples = Num(MaxSamples)
    /\ ColorOps(call.pass) = << >>

\* C13: each of setClearColor, setClearDepth and setClearStencil, called on
\* a pass on which init was never called, ends in a fault.
C13_ClearBeforeInitFaults ==
    (call.op \in {"setClearColor", "setClearDepth", "setClearStencil"}
        /\ ~InitWasCalled(call.pass)) => call.threw

-----------------------------------------------------------------------------
(* Pairing and faults of render, under SpecRender *)

\* begin-pass calls not yet followed by their end-pass within a list of calls
OpenPasses(trace) == Count(trace, "startPass") - Count(trace, "endPass")

\* C14: a completed render call leaves the debug-marker stack as it found
\* it (so any sequence of completed calls keeps its depth), issues as many
\* end-pass as begin-pass calls, each end-pass after its begin-pass and for
\* the same pass, and never begins a pass while one it began is still open.
C14_PairedCalls ==
    [][ (call'.op = "render" /\ ~call'.threw) =>
            LET t == call'.trace
            IN  /\ device'.gpuMarkers = device.gpuMarkers
                /\ Count(t, "pushGpuMarker") = Count(t, "popGpuMarker")
                /\ OpenPasses(t) = 0
                /\ \A k \in 0..Len(t) : OpenPasses(SubSeq(t, 1, k)) \in {0, 1}
                /\ Count(t, "startPass") > 0 =>
                        /\ call'.startPassArg = pass[call'.pass]
                        /\ call'.endPassArg = call'.startPassArg ]_vars

\* a completed render of an initialised pass, on a stack that still holds
\* the marker of an earlier, faulted render
C14_Witness ==
    /\ call.op = "render" /\ ~call.threw
    /\ Count(call.trace, "startPass") = 1
    /\ Count(call.trace, "endPass") = 1
    /\ Len(device.gpuMarkers) = 1

\* the calls of a list up to and including the given one
Through(order, event) ==
    SubSeq(order, 1, CHOOSE k \in 1..Len(order) : order[k] = event)

\* C15: when before, execute or after faults, render ends in that fault and
\* does nothing after the faulting callback: no later callback or device
\* call, no counter increment, and the marker it pushed stays on the stack.
C15_FaultEndsRender ==
    [][ (call'.op = "render" /\ Count(call'.trace, call'.fault) > 0) =>
            /\ call'.threw
            /\ call'.trace = Through(StatedOrder(call'.pass), call'.fault)
            /\ device'.renderPassIndex = device.renderPassIndex
            /\ device'.gpuMarkers =
                    Append(device.gpuMarkers, <<"Pass:", pass[call'.pass].name>>) ]_vars

\* execute faulted in an initialised pass that also has an after callback
C15_Witness ==
    /\ call.op = "render" /\ call.threw /\ call.fault = "execute"
    /\ InitWasCalled(call.pass)
    /\ Truthy(pass[call.pass].after)
    /\ call.trace = << "pushGpuMarker", "startPass", "execute" >>
    /\ Len(device.gpuMarkers) = 1

-----------------------------------------------------------------------------
(* What render leaves alone and what the device sees, under SpecRender *)

AttachmentFields == {"renderTarget", "samples", "colorArrayOps", "depthStencilOps"}

\* C16: a render call leaves renderTarget, samples, colorArrayOps and
\* depthStencilOps of its pass unchanged, whether or not init was called;
\* on a pass on which init was never called it does not fault when no
\* callback faults; and the pass handed to the device's begin-pass carries
\* the attachment declarations as they stand at that render call, so
\* declarations made since the previous render are seen by this one.
C16_RenderFrame ==
    [][ call'.op = "render" =>
            LET p == call'.pass
            IN  /\ \A f \in AttachmentFields : pass'[p][f] = pass[p][f]
                /\ (~InitWasCalled(p) /\ call'.fault = "none") => ~call'.threw
                /\ Count(call'.trace, "startPass") > 0 =>
                        \A f \in AttachmentFields : call'.startPassArg[f] = pass[p][f] ]_vars

\* C18: the debug description renderer has no effect: in every state, for
\* every pass and every choice of faulting callback, render with tracing
\* enabled issues the same calls, ends in the same device state and has the
\* same fault or no-fault outcome as render with tracing disabled.
C18_TracingHasNoEffect ==
    \A p \in DOMAIN pass, f \in Faults :
        (f # "none" => Truthy(pass[p][f])) =>
            render(pass[p], device, TRUE, f) = render(pass[p], device, FALSE, f)

-----------------------------------------------------------------------------
(* Repeated init and the depth/stencil declarations, under Spec *)

\* C17: after every init call depthStencilOps holds the default values
\* (clear depth value 1, clear stencil value 0, no clear and no store of
\* depth or stencil), so a depth or stencil clear declared before a repeated
\* init is gone after it.
C17_InitResetsDepthStencil ==
    JustInitialised =>
        pass[call.pass].depthStencilOps =
            [ kind              |-> "object",
              clearDepthValue   |-> 1,
              clearStencilValue |-> 0,
              clearDepth        |-> FALSE,
              clearStencil      |-> FALSE,
              storeDepth        |-> FALSE,
              storeStencil      |-> FALSE ]

\* an init call on a pass that had a depth or stencil clear declared
C17_Witness ==
    /\ JustInitialised
    /\ call.pass \in hist.declared
    /\ ~pass[call.pass].depthStencilOps.clearDepth
    /\ ~pass[call.pass].depthStencilOps.clearStencil

-----------------------------------------------------------------------------
(* Clear colors as objects, under SpecColors *)

\* the components of the clear color of color attachment i of pass p, in
\* the given passes and heap
ClearValueIn(passes, hp, p, i) == hp.obj[passes[p].colorArrayOps[i].clearValue.addr]

ClearValueAt(p, i) == ClearValueIn(pass, heap, p, i)

\* C19: clear colors are stored by value and per attachment. The entries
\* of colorArrayOps hold pairwise distinct clearValue objects, none of them
\* the Color passed to setClearColor; setClearColor(C) leaves every entry
\* with its own object, now holding the components of C, and leaves C as it
\* was; writing a component of C afterwards changes no attachment's clear
\* color; writing a component of one attachment's clearValue changes no
\* other attachment's clear color and not C.
C19_ClearColorsByValue ==
    /\ [] (\A p \in DOMAIN pass : \A i, j \in DOMAIN pass[p].colorArrayOps :
                /\ pass[p].colorArrayOps[i].clearValue.addr # heap.color
                /\ i # j => pass[p].colorArrayOps[i].clearValue
                                # pass[p].colorArrayOps[j].clearValue)
    /\ [][ call'.op = "setClearColor" =>
                /\ heap'.color = heap.color
                /\ heap'.obj[heap.color] = heap.obj[heap.color]
                /\ \A i \in DOMAIN pass[call'.pass].colorArrayOps :
                        /\ pass'[call'.pass].colorArrayOps[i].clearValue
                                = pass[call'.pass].colorArrayOps[i].clearValue
                        /\ ClearValueIn(pass', heap', call'.pass, i) = heap.obj[heap.color] ]_vars
    /\ [][ call'.op = "writeColor" =>
                \A p \in DOMAIN pass : \A i \in DOMAIN pass[p].colorArrayOps :
                    ClearValueIn(pass', heap', p, i) = ClearValueAt(p, i) ]_vars
    /\ [][ call'.op = "writeClearValue" =>
                /\ heap'.obj[heap.color] = heap.obj[heap.color]
                /\ \A i \in DOMAIN pass[call'.pass].colorArrayOps :
                        i # call'.arg.n =>
                            ClearValueIn(pass', heap', call'.pass, i) = ClearValueAt(call'.pass, i) ]_vars

\* the caller changed its Color after setClearColor, and every attachment of
\* a target with the most color buffers still holds the color that was set
C19_Witness ==
    /\ call.op = "writeColor"
    /\ heap.obj[heap.color] # Red
    /\ Len(pass[1].colorArrayOps) = MaxColorBuffers
    /\ \A i \in DOMAIN pass[1].colorArrayOps :
            pass[1].colorArrayOps[i].clear /\ ClearValueAt(1, i) = Red

====
